---- MODULE Spec2Model ----
(***************************************************************************)
(* glDynamicBuffer of vis/Code/WebGL.js: a CPU typed array mirrored into a *)
(* WebGL buffer or a 1xN ALPHA texture, with a dirty flag and growth by    *)
(* doubling.  The object is the record `this` (a JavaScript object: fields *)
(* exist once assigned), the WebGL context is the record `gl`.             *)
(***************************************************************************)
EXTENDS Integers, Sequences, FiniteSets, TLC

VARIABLES this, gl, pc, thrown, lastOp, nbWrites, mirrorWrittenSinceUpload

vars == <<this, gl, pc, thrown, lastOp, nbWrites, mirrorWrittenSinceUpload>>

\* Bounds of the model.
MaxEntries == 2
MaxWrites == 1
MaxObjects == 2

\* Largest 32-bit signed integer: the range of the result of <<= (line 159).
INT32_MAX == 2147483647

----------------------------------------------------------------------------
\* JavaScript objects and typed arrays

\* obj.field = val
Put(obj, field, val) ==
    [f \in (DOMAIN obj) \cup {field} |-> IF f = field THEN val ELSE obj[f]]

\* obj.field != undefined
Has(obj, field) == field \in DOMAIN obj

\* new Float32Array(length) / new Uint8Array(length): zero-filled
NewTypedArray(length) == [i \in 1..length |-> 0]

\* The value a typed array of the element type keeps when v is stored in it:
\* Uint8Array keeps v modulo 2^8, Float32Array keeps small integers exactly.
StoredValue(elementType, v) == IF elementType = "BYTE" THEN v % 256 ELSE v

\* target.set(source) throws a RangeError when source is longer than target
TypedArraySetThrows(target, source) == Len(source) > Len(target)

\* target.set(source) that copies nothing
TypedArraySet_NoCopy(target, source) == target

\* target after target.set(source): source copied to offset 0
TypedArraySet(target, source) ==
    [i \in 1..Len(target) |-> IF i <= Len(source) THEN source[i] ELSE target[i]]

RECURSIVE Log2(_)
Log2(v) == IF v <= 1 THEN 0 ELSE 1 + Log2(v \div 2)

RECURSIVE Pow2(_)
Pow2(e) == IF e = 0 THEN 1 ELSE 2 * Pow2(e - 1)

\* The four little-endian bytes of the IEEE-754 single holding integer v, 0 <= v < 2^24
Float32Bytes(v) ==
    IF v = 0 THEN <<0, 0, 0, 0>>
    ELSE LET e == Log2(v)
             bits == (e + 127) * 8388608 + (v - Pow2(e)) * Pow2(23 - e)
         IN <<bits % 256, (bits \div 256) % 256, (bits \div 65536) % 256, bits \div 16777216>>

RECURSIVE Flatten(_)
Flatten(ss) == IF ss = <<>> THEN <<>> ELSE Head(ss) \o Flatten(Tail(ss))

\* The bytes of a typed array's underlying ArrayBuffer
ArrayBytes(elementType, array) ==
    IF elementType = "FLOAT"
    THEN Flatten([i \in 1..Len(array) |-> Float32Bytes(array[i])])
    ELSE array

----------------------------------------------------------------------------
\* The WebGL context: objects by handle (1, 2, ...; 0 is null), the two binding
\* points the class uses, vertex attribute 0, the active texture unit and the
\* uniforms of the program in use, and the calls issued by the operation in
\* progress.  TEXTURE_2D is the binding of texture unit 0, the only unit the
\* calls of the model select.

glInit ==
    [objects |-> <<>>, ARRAY_BUFFER |-> 0, TEXTURE_2D |-> 0,
     attribs |-> <<[enabled |-> FALSE, buffer |-> 0, size |-> 4,
                    type |-> "FLOAT", divisor |-> 0]>>,
     ACTIVE_TEXTURE |-> 0, uniforms |-> <<0, 0>>,
     calls |-> <<>>]

GLCall(fn, obj, size, data, err) ==
    [fn |-> fn, obj |-> obj, size |-> size, data |-> data, err |-> err]

Log(g, call) == [g EXCEPT !.calls = Append(@, call)]

\* the handle the next gl.createBuffer() / gl.createTexture() returns
NewHandle(g) == Len(g.objects) + 1

createBuffer(g) ==
    Log([g EXCEPT !.objects = Append(@, [kind |-> "buffer", data |-> <<>>])],
        GLCall("createBuffer", NewHandle(g), 0, <<>>, ""))

bindBuffer(g, buffer) ==
    Log([g EXCEPT !.ARRAY_BUFFER = buffer], GLCall("bindBuffer", buffer, 0, <<>>, ""))

\* gl.bufferData(target, size, usage): a new data store of size bytes, initialised to 0
bufferData(g, size) ==
    IF g.ARRAY_BUFFER = 0
    THEN Log(g, GLCall("bufferData", 0, size, <<>>, "INVALID_OPERATION"))
    ELSE Log([g EXCEPT !.objects[g.ARRAY_BUFFER].data = [i \in 1..size |-> 0]],
             GLCall("bufferData", g.ARRAY_BUFFER, size, <<>>, ""))

\* gl.bufferSubData(target, 0, srcData): replaces the first Len(bytes) bytes of the store
bufferSubData(g, bytes) ==
    IF g.ARRAY_BUFFER = 0
    THEN Log(g, GLCall("bufferSubData", 0, Len(bytes), bytes, "INVALID_OPERATION"))
    ELSE IF Len(bytes) > Len(g.objects[g.ARRAY_BUFFER].data)
    THEN Log(g, GLCall("bufferSubData", g.ARRAY_BUFFER, Len(bytes), bytes, "INVALID_VALUE"))
    ELSE Log([g EXCEPT !.objects[g.ARRAY_BUFFER].data =
                  [i \in 1..Len(@) |-> IF i <= Len(bytes) THEN bytes[i] ELSE @[i]]],
             GLCall("bufferSubData", g.ARRAY_BUFFER, Len(bytes), bytes, ""))

createTexture(g) ==
    Log([g EXCEPT !.objects = Append(@, [kind |-> "texture", data |-> <<>>, params |-> {}])],
        GLCall("createTexture", NewHandle(g), 0, <<>>, ""))

bindTexture(g, texture) ==
    Log([g EXCEPT !.TEXTURE_2D = texture], GLCall("bindTexture", texture, 0, <<>>, ""))

texParameteri(g, pname, param) ==
    IF g.TEXTURE_2D = 0
    THEN Log(g, GLCall("texParameteri", 0, 0, <<pname, param>>, "INVALID_OPERATION"))
    ELSE Log([g EXCEPT !.objects[g.TEXTURE_2D].params =
                  {p \in @ : p[1] # pname} \cup {<<pname, param>>}],
             GLCall("texParameteri", g.TEXTURE_2D, 0, <<pname, param>>, ""))

\* gl.texImage2D(TEXTURE_2D, 0, ALPHA, width, 1, 0, ALPHA, UNSIGNED_BYTE, pixels):
\* redefines the bound texture as width x 1 texels taken from pixels
texImage2D(g, width, pixels) ==
    IF g.TEXTURE_2D = 0 \/ Len(pixels) < width
    THEN Log(g, GLCall("texImage2D", g.TEXTURE_2D, width, pixels, "INVALID_OPERATION"))
    ELSE Log([g EXCEPT !.objects[g.TEXTURE_2D].data = SubSeq(pixels, 1, width)],
             GLCall("texImage2D", g.TEXTURE_2D, width, pixels, ""))

\* The linked program the buffer is bound to: its active attributes by name.
program ==
    [attributes |-> [inData |-> 0],
     uniforms |-> [inScale |-> [index |-> 0, type |-> "float"],
                   inTexture |-> [index |-> 1, type |-> "sampler2D"]]]

AttribNames == {"inData", "inMissing"}

\* gl.getAttribLocation(program, name): -1 when the program has no such attribute
getAttribLocation(prog, name) ==
    IF name \in DOMAIN prog.attributes THEN prog.attributes[name] ELSE -1

ValidAttrib(g, index) == index >= 0 /\ index < Len(g.attribs)

enableVertexAttribArray(g, index) ==
    IF ~ValidAttrib(g, index)
    THEN Log(g, GLCall("enableVertexAttribArray", index, 0, <<>>, "INVALID_VALUE"))
    ELSE Log([g EXCEPT !.attribs[index + 1].enabled = TRUE],
             GLCall("enableVertexAttribArray", index, 0, <<>>, ""))

vertexAttribPointer(g, index, size, type) ==
    IF ~ValidAttrib(g, index) \/ size \notin 1..4
    THEN Log(g, GLCall("vertexAttribPointer", index, size, <<>>, "INVALID_VALUE"))
    ELSE Log([g EXCEPT !.attribs[index + 1].buffer = g.ARRAY_BUFFER,
                       !.attribs[index + 1].size = size,
                       !.attribs[index + 1].type = type],
             GLCall("vertexAttribPointer", index, size, <<>>, ""))

vertexAttribDivisor(g, index, divisor) ==
    IF ~ValidAttrib(g, index)
    THEN Log(g, GLCall("vertexAttribDivisor", index, divisor, <<>>, "INVALID_VALUE"))
    ELSE Log([g EXCEPT !.attribs[index + 1].divisor = divisor],
             GLCall("vertexAttribDivisor", index, divisor, <<>>, ""))

UniformNames == {"inScale", "inTexture", "inMissing"}

\* gl.getUniformLocation(program, name): null when the program has no such uniform
getUniformLocation(prog, name) ==
    IF name \in DOMAIN prog.uniforms
    THEN [null |-> FALSE, index |-> prog.uniforms[name].index]
    ELSE [null |-> TRUE, index |-> 0]

UniformType(prog, location) ==
    LET name == CHOOSE n \in DOMAIN prog.uniforms : prog.uniforms[n].index = location.index
    IN prog.uniforms[name].type

uniform1f(g, prog, location, value) ==
    IF UniformType(prog, location) # "float"
    THEN Log(g, GLCall("uniform1f", location.index, value, <<>>, "INVALID_OPERATION"))
    ELSE Log([g EXCEPT !.uniforms[location.index + 1] = value],
             GLCall("uniform1f", location.index, value, <<>>, ""))

uniform1i(g, prog, location, value) ==
    IF UniformType(prog, location) = "float"
    THEN Log(g, GLCall("uniform1i", location.index, value, <<>>, "INVALID_OPERATION"))
    ELSE Log([g EXCEPT !.uniforms[location.index + 1] = value],
             GLCall("uniform1i", location.index, value, <<>>, ""))

\* gl.activeTexture(gl.TEXTURE0 + index)
activeTexture(g, index) ==
    Log([g EXCEPT !.ACTIVE_TEXTURE = index], GLCall("activeTexture", index, 0, <<>>, ""))

\* What glSetUniform leaves: the context and the exception it threw
\* ("" when it returned normally).
Out(g, ex) == [gl |-> g, thrown |-> ex]

\* value is a JavaScript value with its Object.prototype.toString type
glSetUniform(g, prog, name, value, index) ==
    LET location == getUniformLocation(prog, name)
    IN IF location.null THEN Out(g, "Error: Can't find uniform " \o name)
       ELSE IF value.type \in {"Null", "Undefined"} THEN Out(g, "Error: Value is null")
       ELSE IF value.type = "Number" THEN Out(uniform1f(g, prog, location, value.value), "")
       ELSE IF value.type = "WebGLTexture"
       THEN Out(uniform1i(bindTexture(activeTexture(g, index), value.value),
                          prog, location, index), "")
       ELSE Out(g, "Error: Unhandled type " \o value.type)

----------------------------------------------------------------------------
\* class glDynamicBuffer

glDynamicBufferType == [Buffer |-> 1, Texture |-> 2]

\* What a method call leaves: the object, the context, the exception it threw
\* ("" when it returned normally), and whether it came back at all.
Ret(t, g, ex) == [this |-> t, gl |-> g, thrown |-> ex, returns |-> TRUE]

Diverges(t, g) == [this |-> t, gl |-> g, thrown |-> "", returns |-> FALSE]

\* A Buffer case that hands the array to the new store as well
CreateGpuBuffer_Uploads(t, g) ==
    LET t1 == Put(t, "buffer", NewHandle(g))
        g1 == createBuffer(g)
        g2 == bindBuffer(g1, t1.buffer)
        g3 == bufferData(g2, t1.nbBytes)
    IN Ret(t1, bufferSubData(g3, ArrayBytes(t1.elementType, t1.cpuArray)), "")

\* A Buffer case that sizes the store in elements, not bytes
CreateGpuBuffer_SizedInElements(t, g) ==
    LET t1 == Put(t, "buffer", NewHandle(g))
        g1 == createBuffer(g)
        g2 == bindBuffer(g1, t1.buffer)
        g3 == bufferData(g2, t1.nbElements * t1.nbEntries)
    IN Ret(t1, g3, "")

\* Resize, "Create the GPU buffer", case glDynamicBufferType.Buffer
CreateGpuBuffer(t, g) ==
    LET t1 == Put(t, "buffer", NewHandle(g))
        g1 == createBuffer(g)
        g2 == bindBuffer(g1, t1.buffer)
        g3 == bufferData(g2, t1.nbBytes)
    IN Ret(t1, g3, "")

\* A Texture case that checks the element type and not the arity
CreateGpuTexture_NoArityAssert(t, g) ==
    LET t1 == Put(t, "texture", NewHandle(g))
        g1 == createTexture(g)
        g2 == bindTexture(g1, t1.texture)
        g3 == texParameteri(g2, "TEXTURE_MIN_FILTER", "NEAREST")
        g4 == texParameteri(g3, "TEXTURE_MAG_FILTER", "NEAREST")
        g5 == texParameteri(g4, "TEXTURE_WRAP_S", "CLAMP_TO_EDGE")
        g6 == texParameteri(g5, "TEXTURE_WRAP_T", "CLAMP_TO_EDGE")
    IN IF t1.elementType # "BYTE" THEN Ret(t1, g6, "Error: Assertion failed")
       ELSE Ret(t1, texImage2D(g6, t1.nbEntries, t1.cpuArray), "")

\* Resize, "Create the GPU buffer", case glDynamicBufferType.Texture
CreateGpuTexture(t, g) ==
    LET t1 == Put(t, "texture", NewHandle(g))
        g1 == createTexture(g)
        g2 == bindTexture(g1, t1.texture)
        g3 == texParameteri(g2, "TEXTURE_MIN_FILTER", "NEAREST")
        g4 == texParameteri(g3, "TEXTURE_MAG_FILTER", "NEAREST")
        g5 == texParameteri(g4, "TEXTURE_WRAP_S", "CLAMP_TO_EDGE")
        g6 == texParameteri(g5, "TEXTURE_WRAP_T", "CLAMP_TO_EDGE")
    IN IF t1.elementType # "BYTE" THEN Ret(t1, g6, "Error: Assertion failed")
       ELSE IF t1.nbElements # 1 THEN Ret(t1, g6, "Error: Assertion failed")
       ELSE Ret(t1, texImage2D(g6, t1.nbEntries, t1.cpuArray), "")

\* A switch that also marks the buffer dirty
CreateGpuResource_MarksDirty(t, g) ==
    LET r == IF t.bufferType = glDynamicBufferType.Buffer THEN CreateGpuBuffer(t, g)
             ELSE IF t.bufferType = glDynamicBufferType.Texture THEN CreateGpuTexture(t, g)
             ELSE Ret(t, g, "Error: Unsupported dynamic buffer type")
    IN [r EXCEPT !.this = Put(r.this, "dirty", TRUE)]

\* Resize, "Create the GPU buffer": switch (this.bufferType)
CreateGpuResource(t, g) ==
    IF t.bufferType = glDynamicBufferType.Buffer THEN CreateGpuBuffer(t, g)
    ELSE IF t.bufferType = glDynamicBufferType.Texture THEN CreateGpuTexture(t, g)
    ELSE Ret(t, g, "Error: Unsupported dynamic buffer type")

\* Resize, "Create the CPU array": switch (this.elementType), then nbBytes
SupportedElementType(elementType) == elementType \in {"FLOAT", "BYTE"}

\* An array of one element per entry, whatever nbElements is
CreateCpuArray_IgnoresArity(t) ==
    LET t1 == Put(t, "nbElementBytes", IF t.elementType = "FLOAT" THEN 4 ELSE 1)
        t2 == Put(t1, "cpuArray", NewTypedArray(t1.nbEntries))
    IN Put(t2, "nbBytes", t2.nbElementBytes * t2.nbElements * t2.nbEntries)

CreateCpuArray(t) ==
    LET t1 == Put(t, "nbElementBytes", IF t.elementType = "FLOAT" THEN 4 ELSE 1)
        t2 == Put(t1, "cpuArray", NewTypedArray(t1.nbElements * t1.nbEntries))
    IN Put(t2, "nbBytes", t2.nbElementBytes * t2.nbElements * t2.nbEntries)

Resize(t, g, nb_entries) ==
    LET t1 == Put(t, "nbEntries", nb_entries)
        t2 == CreateCpuArray(t1)
        t3 == Put(t2, "cpuArray", TypedArraySet(t2.cpuArray, t.cpuArray))
    IN IF ~SupportedElementType(t1.elementType)
       THEN Ret(t1, g, "Error: Unsupported dynamic buffer element type")
       ELSE IF ~Has(t, "cpuArray") THEN CreateGpuResource(t2, g)
       ELSE IF TypedArraySetThrows(t2.cpuArray, t.cpuArray) THEN Ret(t2, g, "RangeError")
       ELSE CreateGpuResource(t3, g)

\* new glDynamicBuffer(...args): buffer_type is undefined when not passed
constructor(g, args) ==
    LET t1 == Put(<<>>, "elementType", args[1])
        t2 == Put(t1, "nbElements", args[2])
        t3 == Put(t2, "bufferType",
                  IF Len(args) < 4 THEN glDynamicBufferType.Buffer ELSE args[4])
        t4 == Put(t3, "dirty", FALSE)
    IN Resize(t4, g, args[3])

\* A BindAsInstanceAttribute that binds the buffer before it checks the type
BindAsInstanceAttribute_AssertsLate(t, g, prog, attrib_name) ==
    IF t.bufferType # glDynamicBufferType.Buffer
    THEN Ret(t, bindBuffer(g, 0),
             "Error: Can only call BindAsInstanceAttribute with Buffer types")
    ELSE LET g1 == bindBuffer(g, t.buffer)
             attrib_location == getAttribLocation(prog, attrib_name)
             g2 == enableVertexAttribArray(g1, attrib_location)
             g3 == vertexAttribPointer(g2, attrib_location, t.nbElements, t.elementType)
             g4 == vertexAttribDivisor(g3, attrib_location, 1)
         IN Ret(t, g4, "")

BindAsInstanceAttribute(t, g, prog, attrib_name) ==
    IF t.bufferType # glDynamicBufferType.Buffer
    THEN Ret(t, g, "Error: Can only call BindAsInstanceAttribute with Buffer types")
    ELSE LET g1 == bindBuffer(g, t.buffer)
             attrib_location == getAttribLocation(prog, attrib_name)
             g2 == enableVertexAttribArray(g1, attrib_location)
             g3 == vertexAttribPointer(g2, attrib_location, t.nbElements, t.elementType)
             g4 == vertexAttribDivisor(g3, attrib_location, 1)
         IN Ret(t, g4, "")

\* An UploadData that skips the transfer when the buffer is not dirty
UploadData_OnlyWhenDirty(t, g) ==
    IF ~t.dirty THEN Ret(t, g, "")
    ELSE IF t.bufferType = glDynamicBufferType.Buffer
    THEN Ret(t, bufferSubData(bindBuffer(g, t.buffer), ArrayBytes(t.elementType, t.cpuArray)), "")
    ELSE IF t.bufferType = glDynamicBufferType.Texture
    THEN Ret(t, texImage2D(bindTexture(g, t.texture), t.nbEntries, t.cpuArray), "")
    ELSE Ret(t, g, "")

\* An UploadData that clears the flag itself
UploadData_ClearsDirty(t, g) ==
    LET t1 == Put(t, "dirty", FALSE)
    IN IF t.bufferType = glDynamicBufferType.Buffer
       THEN Ret(t1, bufferSubData(bindBuffer(g, t.buffer), ArrayBytes(t.elementType, t.cpuArray)), "")
       ELSE IF t.bufferType = glDynamicBufferType.Texture
       THEN Ret(t1, texImage2D(bindTexture(g, t.texture), t.nbEntries, t.cpuArray), "")
       ELSE Ret(t1, g, "")

UploadData(t, g) ==
    IF t.bufferType = glDynamicBufferType.Buffer
    THEN Ret(t, bufferSubData(bindBuffer(g, t.buffer), ArrayBytes(t.elementType, t.cpuArray)), "")
    ELSE IF t.bufferType = glDynamicBufferType.Texture
    THEN Ret(t, texImage2D(bindTexture(g, t.texture), t.nbEntries, t.cpuArray), "")
    ELSE Ret(t, g, "")

\* An UploadDirtyData that clears the flag and uploads nothing
UploadDirtyData_ClearsOnly(t, g) == Ret(Put(t, "dirty", FALSE), g, "")

\* An UploadDirtyData that uploads and leaves the flag set
UploadDirtyData_KeepsDirty(t, g) == IF t.dirty THEN UploadData(t, g) ELSE Ret(t, g, "")

UploadDirtyData(t, g) ==
    IF t.dirty
    THEN LET r == UploadData(t, g) IN Ret(Put(r.this, "dirty", FALSE), r.gl, "")
    ELSE Ret(t, g, "")

\* x << 1 on a 32-bit signed integer: bit 30 becomes the sign, bits 29..0 move up
Shl32(x) ==
    LET low == x % 1073741824
        bit30 == (x \div 1073741824) % 2
    IN IF bit30 = 1 THEN ((2 * low) - 1073741824) - 1073741824 ELSE 2 * low

\* The while loop of ResizeToFitNextPow2.  Once nb_entries is 0 with the target
\* still above it, every further shift leaves 0 and the loop never exits.
RECURSIVE DoublingLoop(_, _)
DoublingLoop(nb_entries, target_count) ==
    IF ~(target_count > nb_entries) THEN [exits |-> TRUE, nb_entries |-> nb_entries]
    ELSE IF nb_entries = 0 THEN [exits |-> FALSE, nb_entries |-> 0]
    ELSE DoublingLoop(Shl32(nb_entries), target_count)

ResizeToFitNextPow2(t, g, target_count) ==
    LET loop == DoublingLoop(t.nbEntries, target_count)
    IN IF ~loop.exits THEN Diverges(t, g)
       ELSE IF loop.nb_entries > t.nbEntries THEN Resize(t, g, loop.nb_entries)
       ELSE Ret(t, g, "")

\* Caller code storing one value in the mirror; by the callers' convention every
\* such write also sets dirty.
MirrorWrite(t, index, value) ==
    Put(Put(t, "cpuArray", [t.cpuArray EXCEPT ![index + 1] = StoredValue(t.elementType, value)]),
        "dirty", TRUE)

----------------------------------------------------------------------------
\* The calls of one operation that transfer array contents into a GPU resource
UploadCalls(calls) ==
    {i \in 1..Len(calls) : calls[i].fn \in {"bufferSubData", "texImage2D"} /\ calls[i].err = ""}

\* The GPU resource the object's handle refers to
GpuHandle(t) == IF t.bufferType = glDynamicBufferType.Buffer THEN t.buffer ELSE t.texture

ElementTypes == {"FLOAT", "BYTE", "UNSIGNED_BYTE"}
NbElements == 1..2
BufferTypes == {glDynamicBufferType.Buffer, glDynamicBufferType.Texture, 3}
\* Capacities asked for: none, one entry, the largest of the model
Entries == {0, 1, MaxEntries}
ConstructorArgs ==
    {<<e, n, c>> : e \in ElementTypes, n \in NbElements, c \in Entries}
    \cup {<<e, n, c, b>> : e \in ElementTypes, n \in NbElements, c \in Entries, b \in BufferTypes}
\* Targets: within every capacity above 0, above every initial capacity, out of reach
Targets == {1, MaxEntries + 1, INT32_MAX}
\* A value that does not fit a byte: Uint8Array keeps 2, Float32Array keeps 258
WriteValues == {258}
\* The first and the last element of an array of the given length
WriteIndices(length) == {0, length - 1} \cap (0..(length - 1))

Init ==
    /\ this = <<>>
    /\ gl = glInit
    /\ pc = "new"
    /\ thrown = ""
    /\ lastOp = [op |-> "", arg |-> <<>>]
    /\ nbWrites = 0
    /\ mirrorWrittenSinceUpload = FALSE

\* The state a call leaves.  A constructor that throws yields no object; a call
\* that never returns leaves the single thread inside it.
Leaves(r, op, arg) ==
    /\ this' = r.this
    /\ gl' = r.gl
    /\ thrown' = r.thrown
    /\ lastOp' = [op |-> op, arg |-> arg]
    /\ pc' = IF ~r.returns THEN "hung"
             ELSE IF pc = "new" /\ r.thrown # "" THEN "failed"
             ELSE "ready"
    /\ mirrorWrittenSinceUpload' =
           IF UploadCalls(r.gl.calls) # {} THEN FALSE ELSE mirrorWrittenSinceUpload
    /\ UNCHANGED nbWrites

Fresh(g) == [g EXCEPT !.calls = <<>>]

Construct ==
    /\ pc = "new"
    /\ \E args \in ConstructorArgs : Leaves(constructor(Fresh(gl), args), "constructor", args)

Write ==
    /\ pc = "ready"
    /\ nbWrites < MaxWrites
    /\ \E index \in WriteIndices(Len(this.cpuArray)), value \in WriteValues :
          /\ this' = MirrorWrite(this, index, value)
          /\ lastOp' = [op |-> "write", arg |-> <<>>]
    /\ gl' = Fresh(gl)
    /\ nbWrites' = nbWrites + 1
    /\ mirrorWrittenSinceUpload' = TRUE
    /\ thrown' = ""
    /\ UNCHANGED pc

CallUploadData ==
    /\ pc = "ready"
    /\ Leaves(UploadData(this, Fresh(gl)), "UploadData", <<>>)

CallUploadDirtyData ==
    /\ pc = "ready"
    /\ Leaves(UploadDirtyData(this, Fresh(gl)), "UploadDirtyData", <<>>)

CallResize ==
    /\ pc = "ready"
    /\ Len(gl.objects) < MaxObjects
    /\ \E nb_entries \in Entries :
          Leaves(Resize(this, Fresh(gl), nb_entries), "Resize", nb_entries)

CallResizeToFitNextPow2 ==
    /\ pc = "ready"
    /\ Len(gl.objects) < MaxObjects
    /\ \E target_count \in Targets :
          Leaves(ResizeToFitNextPow2(this, Fresh(gl), target_count),
                 "ResizeToFitNextPow2", target_count)

CallBindAsInstanceAttribute ==
    /\ pc = "ready"
    /\ \E attrib_name \in AttribNames :
          Leaves(BindAsInstanceAttribute(this, Fresh(gl), program, attrib_name),
                 "BindAsInstanceAttribute", attrib_name)

\* The values rendering code passes: a number, a texture the context holds,
\* null, and a value of a type the switch does not handle
UniformValues(g) ==
    {[type |-> "Number", value |-> 1], [type |-> "Null", value |-> 0],
     [type |-> "String", value |-> 0]}
    \cup {[type |-> "WebGLTexture", value |-> h] :
             h \in {o \in 1..Len(g.objects) : g.objects[o].kind = "texture"}}

CallSetUniform ==
    /\ pc = "ready"
    /\ \E name \in UniformNames, value \in UniformValues(gl) :
          LET r == glSetUniform(Fresh(gl), program, name, value, 0)
          IN /\ gl' = r.gl
             /\ thrown' = r.thrown
             /\ lastOp' = [op |-> "glSetUniform", arg |-> name]
    /\ UNCHANGED <<this, pc, nbWrites, mirrorWrittenSinceUpload>>

Next ==
    \/ Construct
    \/ Write
    \/ CallUploadData
    \/ CallUploadDirtyData
    \/ CallResize
    \/ CallResizeToFitNextPow2
    \/ CallBindAsInstanceAttribute

Spec == Init /\ [][Next]_vars

\* The calls that look a shader attribute or uniform up by name
NextShader ==
    \/ Construct
    \/ CallBindAsInstanceAttribute
    \/ CallSetUniform

SpecShader == Init /\ [][NextShader]_vars

----------------------------------------------------------------------------
\* Properties

\* The mirror's bytes and the bytes held by the GPU resource the handle refers to
MirrorBytes == ArrayBytes(this.elementType, this.cpuArray)
GpuBytes == gl.objects[GpuHandle(this)].data

\* The class never calls gl.deleteBuffer or gl.deleteTexture: every object the
\* context has created is still allocated.
LiveObjects(g) == 1..Len(g.objects)

Growth == {"Resize", "ResizeToFitNextPow2"}

\* C1 (as stated): dirty is true if and only if the mirror has been written
\* since the last upload of the mirror to the GPU resource.
C1_DirtyIffWrittenSinceUpload ==
    pc = "ready" => (this.dirty <=> mirrorWrittenSinceUpload)

\* C1 (amended): whenever the mirror has been written since the last upload,
\* dirty is true; dirty may stay true after an upload that UploadData or a
\* texture Resize performed.
C1_WrittenSinceUploadIsDirty ==
    pc = "ready" => (mirrorWrittenSinceUpload => this.dirty)

C1_Witness ==
    /\ pc = "ready" /\ lastOp.op = "Resize" /\ thrown = ""
    /\ mirrorWrittenSinceUpload /\ this.dirty

\* C2: UploadDirtyData on a dirty buffer issues exactly one upload, of the whole
\* mirror, and clears dirty; on a clean buffer it issues no GL call and changes
\* nothing, so a second call in a row uploads nothing.
C2_UploadDirtyDataOnce ==
    [][lastOp'.op = "UploadDirtyData" =>
         /\ ~this'.dirty
         /\ IF this.dirty
            THEN /\ Cardinality(UploadCalls(gl'.calls)) = 1
                 /\ \A i \in UploadCalls(gl'.calls) :
                       /\ gl'.calls[i].obj = GpuHandle(this)
                       /\ gl'.calls[i].data = MirrorBytes
                 /\ this' = Put(this, "dirty", FALSE)
            ELSE /\ gl'.calls = <<>>
                 /\ this' = this
                 /\ gl' = Fresh(gl)]_vars

C2_Witness ==
    /\ pc = "ready" /\ lastOp.op = "UploadDirtyData"
    /\ UploadCalls(gl.calls) # {} /\ ~this.dirty /\ nbWrites > 0

RECURSIVE IsDoublingOf(_, _)
IsDoublingOf(r, c) == r = c \/ (r > c /\ r % 2 = 0 /\ IsDoublingOf(r \div 2, c))

\* r = c * 2^k for the smallest k >= 0 with c * 2^k >= target
DoublingLaw(c, target, r) ==
    IF target <= c THEN r = c
    ELSE r >= target /\ IsDoublingOf(r, c) /\ r \div 2 < target

\* C3: ResizeToFitNextPow2(target) on a buffer of positive capacity C leaves
\* capacity C * 2^k for the smallest k with C * 2^k >= target, for every target
\* of the 32-bit range.
C3_DoublingGrowthLaw ==
    [][(pc = "ready" /\ lastOp'.op = "ResizeToFitNextPow2" /\ this.nbEntries > 0) =>
          DoublingLaw(this.nbEntries, lastOp'.arg, this'.nbEntries)]_vars

\* C4: when the capacity grows, the mirror before the growth is the prefix of
\* the mirror after it and every added element is zero.
C4_PrefixPreservation ==
    [][(pc = "ready" /\ this'.nbEntries > this.nbEntries) =>
          /\ Len(this.cpuArray) = this.nbEntries * this.nbElements
          /\ Len(this'.cpuArray) = this'.nbEntries * this.nbElements
          /\ SubSeq(this'.cpuArray, 1, Len(this.cpuArray)) = this.cpuArray
          /\ \A i \in (Len(this.cpuArray) + 1)..Len(this'.cpuArray) : this'.cpuArray[i] = 0]_vars

C4_Witness ==
    /\ pc = "ready" /\ lastOp.op = "ResizeToFitNextPow2" /\ gl.calls # <<>>
    /\ this.cpuArray[1] # 0 /\ this.cpuArray[Len(this.cpuArray)] = 0

\* C5: no call, failing ones included, lowers the capacity.
C5_CapacityNeverDecreases ==
    [][pc = "ready" => this'.nbEntries >= this.nbEntries]_vars

\* C6 (as stated): Resize transfers no mirror contents to the new GPU resource,
\* in either backing mode.
C6_ResizeNeverUploads ==
    [][lastOp'.op = "Resize" => UploadCalls(gl'.calls) = {}]_vars

\* C6 (amended): Resize of a Buffer-backed object transfers nothing; Resize of a
\* Texture-backed object that does not throw transfers the whole mirror once,
\* in the texImage2D call that defines the new texture.
C6_ResizeUploadsOnlyTexture ==
    [][lastOp'.op = "Resize" =>
         IF this.bufferType = glDynamicBufferType.Buffer \/ thrown' # ""
         THEN UploadCalls(gl'.calls) = {}
         ELSE /\ Cardinality(UploadCalls(gl'.calls)) = 1
              /\ \A i \in UploadCalls(gl'.calls) :
                    /\ gl'.calls[i].fn = "texImage2D"
                    /\ gl'.calls[i].obj = this'.texture
                    /\ gl'.calls[i].data = this'.cpuArray]_vars

C6_Witness ==
    /\ pc = "ready" /\ lastOp.op = "Resize" /\ thrown = ""
    /\ this.bufferType = glDynamicBufferType.Buffer
    /\ this.cpuArray # <<>> /\ this.cpuArray[1] # 0
    /\ GpuBytes # MirrorBytes

\* C7: Resize and ResizeToFitNextPow2 leave dirty as it was.
C7_ResizeKeepsDirty ==
    [][(pc = "ready" /\ lastOp'.op \in Growth) => this'.dirty = this.dirty]_vars

C7_Witness ==
    /\ pc = "ready" /\ lastOp.op = "ResizeToFitNextPow2" /\ gl.calls # <<>>
    /\ thrown = "" /\ this.dirty

\* C8: a constructed buffer has exactly one live GPU resource, the one its
\* handle refers to.
C8_OneLiveGpuResource ==
    pc = "ready" => LiveObjects(gl) = {GpuHandle(this)}

\* C9 (as stated): the constructor uploads the mirror exactly once, in both
\* modes, and the GPU resource then equals the mirror.
C9_ConstructUploadsOnce ==
    (pc = "ready" /\ lastOp.op = "constructor") =>
        /\ Cardinality(UploadCalls(gl.calls)) = 1
        /\ GpuBytes = MirrorBytes

\* C9 (amended): after construction the GPU resource equals the zero mirror; a
\* Texture-backed object got it by one upload of the mirror, a Buffer-backed
\* object by no upload: its store of nbBytes bytes is allocated zero-filled.
C9_ConstructGpuEqualsMirror ==
    (pc = "ready" /\ lastOp.op = "constructor") =>
        /\ GpuBytes = MirrorBytes
        /\ IF this.bufferType = glDynamicBufferType.Texture
           THEN Cardinality(UploadCalls(gl.calls)) = 1
           ELSE /\ UploadCalls(gl.calls) = {}
                /\ \E i \in 1..Len(gl.calls) :
                      /\ gl.calls[i].fn = "bufferData"
                      /\ gl.calls[i].obj = this.buffer
                      /\ gl.calls[i].size = this.nbBytes

C9_Witness ==
    /\ pc = "ready" /\ lastOp.op = "constructor"
    /\ this.bufferType = glDynamicBufferType.Buffer
    /\ this.elementType = "FLOAT" /\ this.nbEntries > 0

\* C10: a successful constructor leaves a mirror of nb_elements * nb_entries
\* zeros, capacity nb_entries and dirty false.
C10_ConstructState ==
    (pc = "ready" /\ lastOp.op = "constructor") =>
        /\ Len(this.cpuArray) = lastOp.arg[2] * lastOp.arg[3]
        /\ \A i \in 1..Len(this.cpuArray) : this.cpuArray[i] = 0
        /\ this.nbEntries = lastOp.arg[3]
        /\ this.dirty = FALSE

C10_Witness ==
    /\ pc = "ready" /\ lastOp.op = "constructor"
    /\ Len(this.cpuArray) = 2 * MaxEntries

\* C11: a constructor call asking for Texture backing with an element type
\* other than BYTE or an arity other than 1 throws and yields no buffer.
C11_TextureNeedsByteArity1 ==
    (lastOp.op = "constructor" /\ Len(lastOp.arg) = 4
        /\ lastOp.arg[4] = glDynamicBufferType.Texture
        /\ (lastOp.arg[1] # "BYTE" \/ lastOp.arg[2] # 1)) =>
        (pc = "failed" /\ thrown # "")

C11_Witness ==
    /\ pc = "failed" /\ thrown = "Error: Assertion failed"
    /\ lastOp.op = "constructor" /\ lastOp.arg = <<"BYTE", 2, MaxEntries, glDynamicBufferType.Texture>>

FnsOf(calls) == [i \in 1..Len(calls) |-> calls[i].fn]

\* C12: BindAsInstanceAttribute on a Texture-backed buffer throws before any GL
\* call and changes nothing; on a Buffer-backed buffer it binds this.buffer and
\* sets the attribute up with arity nbElements and divisor 1.
C12_BindAsInstanceAttribute ==
    [][lastOp'.op = "BindAsInstanceAttribute" =>
         IF this.bufferType # glDynamicBufferType.Buffer
         THEN /\ thrown' # ""
              /\ gl'.calls = <<>>
              /\ this' = this
              /\ gl' = Fresh(gl)
         ELSE LET loc == getAttribLocation(program, lastOp'.arg)
              IN /\ thrown' = ""
                 /\ this' = this
                 /\ gl'.ARRAY_BUFFER = this.buffer
                 /\ FnsOf(gl'.calls) = <<"bindBuffer", "enableVertexAttribArray",
                                         "vertexAttribPointer", "vertexAttribDivisor">>
                 /\ gl'.calls[1].obj = this.buffer
                 /\ gl'.calls[3].size = this.nbElements
                 /\ gl'.calls[4].size = 1
                 /\ loc >= 0 =>
                       gl'.attribs[loc + 1] =
                           [enabled |-> TRUE, buffer |-> this.buffer, size |-> this.nbElements,
                            type |-> this.elementType, divisor |-> 1]]_vars

C12_Witness ==
    /\ pc = "ready" /\ lastOp.op = "BindAsInstanceAttribute"
    /\ this.bufferType = glDynamicBufferType.Texture
    /\ thrown = "Error: Can only call BindAsInstanceAttribute with Buffer types"
    /\ gl.calls = <<>>

\* C13: a call that does not find the attribute or uniform it looks up by name
\* throws at once, with no GL call after the lookup: BindAsInstanceAttribute
\* for a missing attribute, glSetUniform for a missing uniform.
C13_MissingNameAborts ==
    [][/\ (lastOp'.op = "BindAsInstanceAttribute"
             /\ this.bufferType = glDynamicBufferType.Buffer
             /\ lastOp'.arg \notin DOMAIN program.attributes) =>
              (thrown' # "" /\ FnsOf(gl'.calls) = <<"bindBuffer">>)
       /\ (lastOp'.op = "glSetUniform" /\ lastOp'.arg \notin DOMAIN program.uniforms) =>
              (thrown' # "" /\ gl'.calls = <<>>)]_vars

\* The glSetUniform half of C13 alone
C13_MissingUniformAborts ==
    [][(lastOp'.op = "glSetUniform" /\ lastOp'.arg \notin DOMAIN program.uniforms) =>
          (thrown' # "" /\ gl'.calls = <<>> /\ gl' = Fresh(gl))]_vars

\* C14: once constructed, the mirror holds nbElements * nbEntries elements.
C14_MirrorLength ==
    pc \in {"ready", "hung"} => Len(this.cpuArray) = this.nbElements * this.nbEntries

C14_Witness ==
    /\ pc = "ready" /\ lastOp.op = "ResizeToFitNextPow2" /\ gl.calls # <<>>
    /\ this.nbElements = 2 /\ this.nbEntries = 2 * MaxEntries
    /\ Len(this.cpuArray) = 4 * MaxEntries

\* C15: once constructed, the GPU resource the handle refers to has the byte
\* size of the mirror, nbElementBytes * nbElements * nbEntries.
C15_GpuSizeMatchesMirror ==
    pc = "ready" =>
        /\ Len(GpuBytes) = Len(MirrorBytes)
        /\ Len(GpuBytes) = this.nbElementBytes * this.nbElements * this.nbEntries

\* Every element of the mirror is held, at its place, by the GPU resource
GpuHoldsMirror ==
    /\ Len(GpuBytes) >= Len(MirrorBytes)
    /\ SubSeq(GpuBytes, 1, Len(MirrorBytes)) = MirrorBytes

\* C16: right after UploadData the GPU resource holds every one of the
\* nbElements * nbEntries elements of the mirror, whatever dirty is and
\* whatever was written, in both modes and after a resize.
C16_UploadDataTransmitsMirror ==
    (pc = "ready" /\ lastOp.op = "UploadData") =>
        /\ Len(this.cpuArray) = this.nbElements * this.nbEntries
        /\ Cardinality(UploadCalls(gl.calls)) = 1
        /\ GpuHoldsMirror

C16_Witness ==
    /\ pc = "ready" /\ lastOp.op = "UploadData"
    /\ ~this.dirty /\ Len(gl.objects) = 2
    /\ this.cpuArray # <<>> /\ this.cpuArray[1] # 0

\* C17: UploadData changes no field of the buffer; a dirty buffer stays dirty.
C17_UploadDataKeepsFields ==
    [][lastOp'.op = "UploadData" => (this' = this /\ thrown' = "")]_vars

C17_Witness ==
    /\ pc = "ready" /\ lastOp.op = "UploadData"
    /\ this.dirty /\ ~mirrorWrittenSinceUpload /\ nbWrites > 0

\* C18: with every write setting dirty, a constructed buffer whose dirty is
\* false has a GPU resource holding the mirror's contents.
C18_CleanMeansGpuHoldsMirror ==
    (pc = "ready" /\ ~this.dirty) => GpuHoldsMirror

\* C19: every ResizeToFitNextPow2 call on a constructed buffer returns.
C19_ResizeToFitNextPow2Returns ==
    pc # "hung"

\* C20: ResizeToFitNextPow2(target) with target <= capacity allocates nothing
\* and changes nothing; with target > capacity it allocates exactly one GPU
\* resource.
C20_OneAllocationPerGrowth ==
    [][lastOp'.op = "ResizeToFitNextPow2" =>
         IF lastOp'.arg <= this.nbEntries
         THEN /\ Len(gl'.objects) = Len(gl.objects)
              /\ this' = this
              /\ gl' = Fresh(gl)
         ELSE Len(gl'.objects) = Len(gl.objects) + 1]_vars

\* C20 for the calls that return
C20_OneAllocationPerReturningGrowth ==
    [][(lastOp'.op = "ResizeToFitNextPow2" /\ pc' = "ready") =>
         IF lastOp'.arg <= this.nbEntries
         THEN /\ Len(gl'.objects) = Len(gl.objects)
              /\ this' = this
              /\ gl' = Fresh(gl)
         ELSE /\ Len(gl'.objects) = Len(gl.objects) + 1
              /\ Cardinality({i \in 1..Len(gl'.calls) :
                                gl'.calls[i].fn \in {"createBuffer", "createTexture"}}) = 1]_vars

====
